---- MODULE Spec2Model ----
(***************************************************************************)
(* NoteRs: the collapsible markdown document behind the editor buffer.     *)
(* A Note owns a tree of Sections and MarkdownStrings (src/src/note.rs)    *)
(* and two cached strings: `internal` (full text) and `repr` (display      *)
(* text).  Strings are sequences of one-character strings, positions are   *)
(* 0-based byte offsets as in the Rust code (the alphabet is ASCII).       *)
(***************************************************************************)
EXTENDS Integers, Sequences, FiniteSets, TLC

VARIABLES internal, root, repr, op, edits

vars == <<internal, root, repr, op, edits>>

----------------------------------------------------------------------------
(* Bounds of the model *)

\* longest arbitrary text that open_file reads in SpecParse
MaxLen == 5
\* edits (insert_text / delete_char_range) since the file was opened
MaxEdits == 1
\* longest range passed to delete_char_range
MaxDel == 1
\* how far past the end of the display text a position is taken
MaxOver == 2

----------------------------------------------------------------------------
(* Strings *)

\* s[a..b] of Rust: bytes a (inclusive) to b (exclusive), 0-based
Slice(s, a, b) == SubSeq(s, a + 1, b)

\* String::insert_str(pos, text)
insert_str(s, pos, text) == Slice(s, 0, pos) \o text \o Slice(s, pos, Len(s))

\* String::drain(start..end)
drain(s, start, end) == Slice(s, 0, start) \o Slice(s, end, Len(s))

RECURSIVE Hashes(_)
Hashes(n) == IF n = 0 THEN <<>> ELSE <<"#">> \o Hashes(n - 1)

\* number of consecutive characters from 0-based offset i on whose membership
\* in the class S is `member` (a regex class S, or its negation [^S])
RECURSIVE Run(_, _, _, _)
Run(s, i, S, member) ==
    IF i < Len(s) /\ ((s[i + 1] \in S) = member)
    THEN 1 + Run(s, i + 1, S, member) ELSE 0

----------------------------------------------------------------------------
(* Node model *)

MarkdownString(text, mdtype) ==
    [type |-> "MarkdownString", text |-> text, mdtype |-> mdtype]

\* a constructor that builds every section collapsed
Section_collapsed(heading, expanded, level, mdtype, children) ==
    [type |-> "Section", heading |-> heading, expanded |-> FALSE,
     level |-> level, mdtype |-> mdtype, children |-> children]

Section(heading, expanded, level, mdtype, children) ==
    [type |-> "Section", heading |-> heading, expanded |-> expanded,
     level |-> level, mdtype |-> mdtype, children |-> children]

SectionDefault == Section(<<>>, TRUE, 0, "None", <<>>)

RECURSIVE len(_, _), len_children(_, _, _)
\* the `for n in &self.children` loop of Section::len, from child i on
len_children(children, flatten, i) ==
    IF i > Len(children) THEN 0
    ELSE len(children[i], flatten) + len_children(children, flatten, i + 1)

\* a length that counts the children of collapsed sections too
len_flat(n, flatten) ==
    IF n.type = "MarkdownString" THEN Len(n.text)
    ELSE (IF n.level > 0 THEN n.level + Len(n.heading) ELSE 0)
         + len_children(n.children, flatten, 1)

\* Node::len
len(n, flatten) ==
    IF n.type = "MarkdownString" THEN Len(n.text)
    ELSE (IF n.level > 0 THEN n.level + Len(n.heading) ELSE 0)
         + (IF n.expanded \/ flatten THEN len_children(n.children, flatten, 1) ELSE 0)

RECURSIVE string(_, _), string_children(_, _, _)
\* the `for node in &self.children` loop of Section::string, from child i on
string_children(children, full, i) ==
    IF i > Len(children) THEN <<>>
    ELSE string(children[i], full) \o string_children(children, full, i + 1)

\* Node::string
string(n, full) ==
    IF n.type = "MarkdownString" THEN n.text
    ELSE Hashes(n.level) \o n.heading
         \o (IF full \/ n.expanded THEN string_children(n.children, full, 1) ELSE <<>>)

----------------------------------------------------------------------------
(* Inline classifier: parse_strings *)

\* the class [\\/A-Za-z0-9_-] of the link regex
LinkChars ==
    {"a","b","c","d","e","f","g","h","i","j","k","l","m",
     "n","o","p","q","r","s","t","u","v","w","x","y","z",
     "A","B","C","D","E","F","G","H","I","J","K","L","M",
     "N","O","P","Q","R","S","T","U","V","W","X","Y","Z",
     "0","1","2","3","4","5","6","7","8","9","_","-","/","\\"}

\* end offset of a match of \*\*[^\*]+\*\* starting at offset i, or -1
BoldAt(t, i) ==
    LET k == Run(t, i + 2, {"*"}, FALSE)
    IN  IF /\ i + 2 <= Len(t) /\ t[i + 1] = "*" /\ t[i + 2] = "*"
           /\ k >= 1
           /\ i + 2 + k + 2 <= Len(t)
           /\ t[i + 2 + k + 1] = "*" /\ t[i + 2 + k + 2] = "*"
        THEN i + 2 + k + 2 ELSE -1

\* end offset of a match of _[^_]+_ starting at offset i, or -1
ItalicAt(t, i) ==
    LET k == Run(t, i + 1, {"_"}, FALSE)
    IN  IF /\ i + 1 <= Len(t) /\ t[i + 1] = "_"
           /\ k >= 1
           /\ i + 1 + k + 1 <= Len(t)
           /\ t[i + 1 + k + 1] = "_"
        THEN i + 1 + k + 1 ELSE -1

\* end offset of a match of @@([\\/A-Za-z0-9_-]+) starting at offset i, or -1
LinkAt(t, i) ==
    LET k == Run(t, i + 2, LinkChars, TRUE)
    IN  IF /\ i + 2 <= Len(t) /\ t[i + 1] = "@" /\ t[i + 2] = "@"
           /\ k >= 1
        THEN i + 2 + k ELSE -1

\* the three entries of `regexes`, in order: the match end at offset i, the type
RegexAt(r, t, i) ==
    CASE r = 1 -> BoldAt(t, i) [] r = 2 -> ItalicAt(t, i) [] r = 3 -> LinkAt(t, i)

RegexType(r) == CASE r = 1 -> "Bold" [] r = 2 -> "Italic" [] r = 3 -> "Link"

\* the leftmost match of regex r in t at offset i or later: <<start, end>>, or <<>>
RECURSIVE find_from(_, _, _)
find_from(r, t, i) ==
    IF i > Len(t) THEN <<>>
    ELSE IF RegexAt(r, t, i) >= 0 THEN <<i, RegexAt(r, t, i)>>
    ELSE find_from(r, t, i + 1)

\* Regex::find
find(r, t) == find_from(r, t, 0)

\* one round of `for r in &regexes`: the match mat of regex r replaces
\* first_match unless first_match starts strictly before it
keep_first(first, mat, r) ==
    IF mat = <<>> THEN first
    ELSE IF first # <<>> /\ first[1] < mat[1] THEN first
    ELSE <<mat[1], mat[2], RegexType(r)>>

\* the `for r in &regexes` loop from regex r on
RECURSIVE first_match(_, _, _)
first_match(t, r, first) ==
    IF r > 3 THEN first
    ELSE first_match(t, r + 1, keep_first(first, find(r, t), r))

\* the `while rerun` loop on one line t, and its body for a given first_match
RECURSIVE parse_line(_)
parse_line_emit(t, first) ==
    IF first # <<>>
    THEN (IF first[1] > 0
          THEN <<MarkdownString(Slice(t, 0, first[1]), "Paragraph")>>
          ELSE <<>>)
         \o <<MarkdownString(Slice(t, first[1], first[2]), first[3])>>
         \o parse_line(Slice(t, first[2], Len(t)))
    ELSE IF Len(t) > 0 THEN <<MarkdownString(t, "Paragraph")>> ELSE <<>>

parse_line(t) == parse_line_emit(t, first_match(t, 1, <<>>))

\* text.split('\n'), every piece but the last with its "\n" put back
RECURSIVE split_lines(_)
split_lines(text) ==
    LET k == Run(text, 0, {"\n"}, FALSE)
    IN  IF k = Len(text) THEN <<text>>
        ELSE <<Slice(text, 0, k + 1)>> \o split_lines(Slice(text, k + 1, Len(text)))

\* the `while let Some(line)` loop from line i on
RECURSIVE parse_lines(_, _)
parse_lines(lines, i) ==
    IF i > Len(lines) THEN <<>>
    ELSE parse_line(lines[i]) \o parse_lines(lines, i + 1)

parse_strings(text) == parse_lines(split_lines(text), 1)

----------------------------------------------------------------------------
(* Block parser: parse *)

\* re.captures_iter for (?m)^(#+)([^\n]+)$ on the text from offset i (a line
\* start) on: one capture per matching line, [start, level (length of group
\* 1), title (group 2), end (end of group 2)]
RECURSIVE captures(_, _)
captures(text, i) ==
    IF i >= Len(text) THEN <<>>
    ELSE LET L == Run(text, i, {"\n"}, FALSE)
             h == Run(text, i, {"#"}, TRUE)
             \* (#+) is greedy but gives one "#" back when the line is all "#"
             g1 == IF h = L THEN h - 1 ELSE h
         IN  (IF g1 >= 1
              THEN <<[start |-> i, level |-> g1,
                      title |-> Slice(text, i + g1, i + L), end |-> i + L]>>
              ELSE <<>>)
             \o captures(text, i + L + 1)

\* is the byte at pos a newline (the heading's own line end)
newline_follows(text, pos) == Len(text) > pos /\ text[pos + 1] = "\n"

\* a parser that drops the newline after a title instead of folding it in
heading_of_unfolded(text, c) == c.title

\* the stored heading of capture c: its title, with the newline that follows
heading_of(text, c) ==
    IF newline_follows(text, c.end) THEN c.title \o <<"\n">> ELSE c.title

\* where the children of capture c start
body_start(text, c) == IF newline_follows(text, c.end) THEN c.end + 1 ELSE c.end

RECURSIVE parse(_), parse_loop(_, _, _, _, _, _, _)
\* the `for caps in re.captures_iter` loop from capture i on, and what
\* follows it
parse_loop(text, caps, i, level, pos, heading, nodes) ==
    IF i > Len(caps)
    THEN IF level = 0 THEN nodes \o parse_strings(text)
         ELSE Append(nodes,
                     Section(heading, TRUE, level, "Heading",
                             parse(Slice(text, pos, Len(text)))))
    ELSE IF level = 0
    THEN parse_loop(text, caps, i + 1, caps[i].level,
                    body_start(text, caps[i]), heading_of(text, caps[i]),
                    IF caps[i].start > 0
                    THEN nodes \o parse_strings(Slice(text, 0, caps[i].start))
                    ELSE nodes)
    ELSE IF caps[i].level > level
    THEN parse_loop(text, caps, i + 1, level, pos, heading, nodes)
    ELSE parse_loop(text, caps, i + 1, caps[i].level,
                    body_start(text, caps[i]), heading_of(text, caps[i]),
                    Append(nodes,
                           Section(heading, TRUE, level, "Heading",
                                   parse(Slice(text, pos, caps[i].start)))))

parse(text) == parse_loop(text, captures(text, 0), 1, 0, 0, <<>>, <<>>)

----------------------------------------------------------------------------
(* Mutation engine and coordinate translator on the tree *)

\* a leaf insert that appends, whatever the position
leaf_insert_append(n, text, pos) ==
    [n EXCEPT !.text = insert_str(n.text, Len(n.text), text)]

\* MarkdownString::insert
leaf_insert(n, text, pos) == [n EXCEPT !.text = insert_str(n.text, pos, text)]

\* Node::insert: [ok |-> the returned bool, node |-> the node afterwards]
RECURSIVE insert(_, _, _), insert_children(_, _, _, _)
\* the outcome of the insert into child i
insert_child(n, i, r) ==
    IF ~r.ok THEN [ok |-> FALSE, node |-> n]
    ELSE [ok |-> TRUE, node |-> [n EXCEPT !.children[i] = r.node]]

\* the `for n in &mut self.children` loop from child i on
insert_children(n, text, i, cur) ==
    IF i > Len(n.children) THEN [ok |-> FALSE, node |-> n]
    ELSE IF cur < len(n.children[i], FALSE)
    THEN insert_child(n, i, insert(n.children[i], text, cur))
    ELSE insert_children(n, text, i + 1, cur - len(n.children[i], FALSE))

insert(n, text, pos) ==
    IF n.type = "MarkdownString"
    THEN [ok |-> TRUE, node |-> leaf_insert(n, text, pos)]
    ELSE IF n.level > 0 /\ pos < n.level
    THEN [ok |-> FALSE, node |-> n]
    ELSE IF n.level > 0 /\ pos - n.level < Len(n.heading)
    THEN [ok |-> TRUE,
          node |-> [n EXCEPT !.heading = insert_str(n.heading, pos - n.level, text)]]
    ELSE insert_children(n, text, 1,
                         IF n.level > 0 THEN pos - n.level - Len(n.heading) ELSE pos)

\* the length translate takes for a section's own heading region
translate_heading_len(n) == n.level + 1 + Len(n.heading)

\* Node::translate: display position -> full position
RECURSIVE translate(_, _), translate_children(_, _, _, _, _)
\* the `for n in &self.children` loop from child i on
translate_children(n, pos, i, cur, offset) ==
    IF i > Len(n.children) THEN pos + offset
    ELSE IF pos - cur < len(n.children[i], FALSE)
    THEN translate(n.children[i], pos - cur) + cur + offset
    ELSE translate_children(n, pos, i + 1, cur + len(n.children[i], FALSE),
                            offset + len(n.children[i], TRUE)
                                   - len(n.children[i], FALSE))

translate(n, pos) ==
    IF n.type = "MarkdownString" THEN pos
    ELSE IF n.level > 0 /\ pos < translate_heading_len(n) THEN pos
    ELSE IF n.expanded
    THEN translate_children(n, pos, 1,
                            IF n.level > 0 THEN translate_heading_len(n) ELSE 0, 0)
    ELSE pos

\* rounding to the position after the heading's last character
collapsed_round_after(cur) == cur

\* what inv_translate returns for a full position under a collapsed section
\* whose heading region ends at cur
collapsed_round(cur) == cur - 1

\* Node::inv_translate: full position -> display position
RECURSIVE inv_translate(_, _), inv_translate_children(_, _, _, _, _)
\* the `for n in &self.children` loop from child i on
inv_translate_children(n, pos, i, cur, offset) ==
    IF i > Len(n.children) THEN cur - offset
    ELSE IF pos - cur < len(n.children[i], TRUE)
    THEN inv_translate(n.children[i], pos - cur) + cur - offset
    ELSE inv_translate_children(n, pos, i + 1, cur + len(n.children[i], TRUE),
                                offset + len(n.children[i], TRUE)
                                       - len(n.children[i], FALSE))

\* the heading region of a section: level + heading.len(), 0 for the root
heading_len(n) == IF n.level > 0 THEN n.level + Len(n.heading) ELSE 0

inv_translate(n, pos) ==
    IF n.type = "MarkdownString" THEN pos
    ELSE IF n.level > 0 /\ pos < heading_len(n) THEN pos
    ELSE IF ~n.expanded THEN collapsed_round(heading_len(n))
    ELSE inv_translate_children(n, pos, 1, heading_len(n), 0)

\* Section::toggle (a MarkdownString panics; path never leads to one)
RECURSIVE toggle(_, _)
toggle(n, p) ==
    IF Len(p) = 0
    THEN IF n.level = 0 THEN n ELSE [n EXCEPT !.expanded = ~n.expanded]
    ELSE [n EXCEPT !.children[p[1] + 1] = toggle(n.children[p[1] + 1], Tail(p))]

\* Section::collapse (a MarkdownString panics)
RECURSIVE collapse(_, _)
collapse(n, p) ==
    IF Len(p) = 0 THEN [n EXCEPT !.expanded = FALSE]
    ELSE [n EXCEPT !.children[p[1] + 1] = collapse(n.children[p[1] + 1], Tail(p))]

\* Section::expand (a MarkdownString panics)
RECURSIVE expand(_, _)
expand(n, p) ==
    IF Len(p) = 0 THEN [n EXCEPT !.expanded = TRUE]
    ELSE [n EXCEPT !.children[p[1] + 1] = expand(n.children[p[1] + 1], Tail(p))]

\* Node::path: the child indices (0-based) to the section holding pos
RECURSIVE path(_, _), path_children(_, _, _, _)
\* the `for (i, n) in self.children.iter().enumerate()` loop from child i on
path_children(n, pos, i, cur) ==
    IF i > Len(n.children) THEN <<>>
    ELSE IF pos <= cur + len(n.children[i], FALSE)
    THEN IF n.children[i].type = "MarkdownString" THEN <<>>
         ELSE <<i - 1>> \o path(n.children[i], pos)
    ELSE path_children(n, pos, i + 1, cur + len(n.children[i], FALSE))

path(n, pos) ==
    IF n.type = "MarkdownString" THEN <<>>
    ELSE IF pos < n.level + Len(n.heading) THEN <<>>
    ELSE path_children(n, pos, 1, n.level + Len(n.heading))

\* the pseudo-span of a section's own text: its hash run and its heading
heading_span(n, mdtype) == MarkdownString(Hashes(n.level) \o n.heading, mdtype)

\* Node::markdown: the spans of the display text, in document order
RECURSIVE markdown(_), markdown_children(_, _)
\* the `for c in &self.children` loop from child i on
markdown_children(children, i) ==
    IF i > Len(children) THEN <<>>
    ELSE markdown(children[i]) \o markdown_children(children, i + 1)

\* a span list that lists the children of collapsed sections too
markdown_all(n) ==
    IF n.type = "MarkdownString" THEN <<n>>
    ELSE <<heading_span(n, "Heading")>> \o markdown_children(n.children, 1)

markdown(n) ==
    IF n.type = "MarkdownString" THEN <<n>>
    ELSE <<heading_span(n, "Heading")>>
         \o (IF n.expanded THEN markdown_children(n.children, 1) ELSE <<>>)

\* Node::get_node: the span at the display position pos
RECURSIVE get_node(_, _), get_node_children(_, _, _, _)
\* the `for n in &self.children` loop from child i on
get_node_children(n, pos, i, cur) ==
    IF i > Len(n.children) THEN MarkdownString(<<>>, "None")
    ELSE IF pos <= cur + len(n.children[i], FALSE)
    THEN get_node(n.children[i], pos - cur)
    ELSE get_node_children(n, pos, i + 1, cur + len(n.children[i], FALSE))

get_node(n, pos) ==
    IF n.type = "MarkdownString" THEN n
    ELSE IF pos < n.level + Len(n.heading) THEN heading_span(n, n.mdtype)
    ELSE get_node_children(n, pos, 1, n.level + Len(n.heading))

----------------------------------------------------------------------------
(* Note: the document the editor drives *)

\* the expanded flags of the sections of n, in document order
RECURSIVE Flags(_), FlagsIn(_, _)
FlagsIn(children, i) ==
    IF i > Len(children) THEN <<>>
    ELSE Flags(children[i]) \o FlagsIn(children, i + 1)

Flags(n) ==
    IF n.type = "MarkdownString" THEN <<>>
    ELSE <<n.expanded>> \o FlagsIn(n.children, 1)

AllExpanded(n) == \A i \in DOMAIN Flags(n) : Flags(n)[i]

\* the root section holding the given children
RootOf(children) == [SectionDefault EXCEPT !.children = children]

\* the Note is n
NoteIs(n) == internal = n.internal /\ root = n.root /\ repr = n.repr

\* the operation that ran last: its name and, for an edit, its arguments and
\* whether a section was collapsed when it was called
Op(name, text, start, end, folded) ==
    [name |-> name, text |-> text, start |-> start, end |-> end,
     folded |-> folded]

\* the Note becomes n
NoteBecomes(n) == internal' = n.internal /\ root' = n.root /\ repr' = n.repr

\* Note::new up to the struct literal: the content kept, nothing parsed yet
Note_alloc(content) == [internal |-> content, root |-> SectionDefault, repr |-> <<>>]

\* Note::new(content)
Note_new(content) ==
    [internal |-> content, root |-> RootOf(parse(content)), repr |-> content]

\* the rest of Note::new: parse the content kept in `internal`
new_parse ==
    /\ op.name = "alloc"
    /\ NoteBecomes(Note_new(internal))
    /\ op' = Op("new", <<>>, 0, 0, FALSE)
    /\ UNCHANGED edits

\* the slow path of insert_text: splice into the full text and reparse
slow_insert(text, char_index) ==
    insert_str(string(root, TRUE), translate(root, char_index), text)

\* with the fast path's outcome r and the text the slow path would parse
insert_choose(r, full) ==
    IF r.ok
    THEN [fast |-> TRUE, internal |-> internal, root |-> r.node,
          repr |-> string(r.node, FALSE)]
    ELSE [fast |-> FALSE, internal |-> full, root |-> RootOf(parse(full)),
          repr |-> string(RootOf(parse(full)), FALSE)]

\* what insert_text leaves
insert_result(text, char_index) ==
    insert_choose(insert(root, text, char_index), slow_insert(text, char_index))

\* TextBuffer::insert_text
insert_text(text, char_index) ==
    /\ edits < MaxEdits
    /\ NoteBecomes(insert_result(text, char_index))
    /\ op' = Op(IF insert(root, text, char_index).ok
                THEN "insert_fast" ELSE "insert_slow",
                text, char_index, char_index, ~AllExpanded(root))
    /\ edits' = edits + 1

\* a delete that takes one byte too many
delete_result_inclusive(start, end) ==
    drain(string(root, TRUE), translate(root, start),
          IF translate(root, end) < len(root, TRUE)
          THEN translate(root, end) + 1 ELSE translate(root, end))

\* the full text delete_char_range leaves
delete_result(start, end) ==
    drain(string(root, TRUE), translate(root, start), translate(root, end))

\* a delete that keeps the tree it had
reparsed_in_place(full) ==
    [internal |-> full, root |-> root, repr |-> string(root, FALSE)]

\* the Note after a reparse of `full`
reparsed(full) ==
    [internal |-> full, root |-> RootOf(parse(full)),
     repr |-> string(RootOf(parse(full)), FALSE)]

\* TextBuffer::delete_char_range
delete_char_range(start, end) ==
    /\ edits < MaxEdits
    /\ NoteBecomes(reparsed(delete_result(start, end)))
    /\ op' = Op("delete", <<>>, start, end, ~AllExpanded(root))
    /\ edits' = edits + 1

\* String::insert_str panics when idx is past the end of the string
insert_str_panics(s, idx) == idx > Len(s)

\* String::drain panics when the range is reversed or ends past the end
drain_panics(s, start, end) == start > end \/ end > Len(s)

\* Note::translate as a call: it checks no bound, and its subtraction
\* pos - cur never underflows, so it always returns
Note_translate(pos) == [panics |-> FALSE, value |-> translate(root, pos)]

\* Note::path as a call: it checks no bound and always returns
Note_path(pos) == [panics |-> FALSE, value |-> path(root, pos)]

\* insert_text panics in the slow path's insert_str; by then `internal` has
\* been overwritten with the full serialization
insert_text_panics(text, char_index) ==
    /\ ~insert(root, text, char_index).ok
    /\ insert_str_panics(string(root, TRUE), translate(root, char_index))

\* delete_char_range panics in drain; by then `internal` has been
\* overwritten with the full serialization
delete_char_range_panics(start, end) ==
    drain_panics(string(root, TRUE), translate(root, start), translate(root, end))

\* a refresh that ignores the collapse flags
refresh_full(r) == string(r, TRUE)

\* Note::refresh on the tree r
refresh(r) == string(r, FALSE)

\* the Note after Note::toggle, then Note::refresh
toggled(p) ==
    [internal |-> internal, root |-> toggle(root, p), repr |-> refresh(toggle(root, p))]

\* the Cmd-T handler of NoteRs::update: path, toggle, refresh
toggle_at(index) ==
    /\ NoteBecomes(toggled(path(root, index)))
    /\ op' = Op("toggle", <<>>, 0, 0, FALSE)
    /\ UNCHANGED edits

\* the operation that ran last on note.root, and the path it was given
FoldOp(name, p) == [name |-> name, path |-> p]

\* note.root.toggle(p), note.root.collapse(p), note.root.expand(p): the
\* Section methods called on the public root field, without a refresh
root_toggle(p) ==
    /\ root' = toggle(root, p)
    /\ op' = FoldOp("toggle", p)
    /\ UNCHANGED <<internal, repr, edits>>

root_collapse(p) ==
    /\ root' = collapse(root, p)
    /\ op' = FoldOp("collapse", p)
    /\ UNCHANGED <<internal, repr, edits>>

root_expand(p) ==
    /\ root' = expand(root, p)
    /\ op' = FoldOp("expand", p)
    /\ UNCHANGED <<internal, repr, edits>>

----------------------------------------------------------------------------
(* Inputs *)

\* what the keyboard inserts
Texts == {<<"#">>, <<"a">>, <<"\n">>}

\* the files the editor opens: the documents of the tests of note.rs with
\* titles and bodies shortened to one character, and one with inline markers
Files ==
    { <<>>,
      <<"#","a","\n","#","#","a","\n","a","\n","#","#","a","\n","a">>,
      <<"#","a","\n","\n","a","\n">>,
      <<"a","\n","#","a","\n","a","\n">>,
      <<"#","a","\n","#","#","#","a","\n","#","#","a">>,
      <<"_","a","_","@","@","a","\n","#","a">> }

\* the characters of arbitrary texts
Chars == {"#", "\n", "a", "*", "_", "@"}

\* every text of at most MaxLen characters
Strings == UNION {[1..n -> Chars] : n \in 0..MaxLen}

\* display positions
Positions == 0..Len(repr)

\* the paths that resolve to a section of n (0-based child indices); any
\* other path panics, on a MarkdownString or on an index out of range
RECURSIVE Paths(_), PathsIn(_, _)
PathsIn(children, i) ==
    IF i > Len(children) THEN {}
    ELSE (IF children[i].type = "Section"
          THEN {<<i - 1>> \o p : p \in Paths(children[i])} ELSE {})
         \cup PathsIn(children, i + 1)

Paths(n) == {<<>>} \cup PathsIn(n.children, 1)

----------------------------------------------------------------------------
(* The editor on one opened file *)

Init ==
    /\ \E content \in Files : NoteIs(Note_new(content))
    /\ op = Op("new", <<>>, 0, 0, FALSE)
    /\ edits = 0

Next ==
    \/ \E text \in Texts, i \in Positions : insert_text(text, i)
    \/ \E s \in Positions, e \in Positions :
          s <= e /\ e - s <= MaxDel /\ delete_char_range(s, e)
    \/ \E i \in Positions : toggle_at(i)

Spec == Init /\ [][Next]_vars

(* Note::new on arbitrary texts *)

InitParse ==
    /\ \E content \in Strings \cup Files : NoteIs(Note_alloc(content))
    /\ op = Op("alloc", <<>>, 0, 0, FALSE)
    /\ edits = 0

NextParse == new_parse

SpecParse == InitParse /\ [][NextParse]_vars

(* The Section methods toggle, collapse and expand on the root of a file *)

InitFold ==
    /\ \E content \in Files : NoteIs(Note_new(content))
    /\ op = FoldOp("new", <<>>)
    /\ edits = 0

NextFold ==
    \/ \E p \in Paths(root) : root_toggle(p)
    \/ \E p \in Paths(root) : root_collapse(p)
    \/ \E p \in Paths(root) : root_expand(p)

SpecFold == InitFold /\ [][NextFold]_vars

----------------------------------------------------------------------------
(* Positions of the sections in the two serializations *)

\* the sections whose heading is in the display text (every ancestor is
\* expanded), each with the offset of its first "#" in the display text (d)
\* and in the full text (f); n starts at d and f
RECURSIVE VisibleSections(_, _, _), VisibleIn(_, _, _, _)
VisibleIn(children, i, d, f) ==
    IF i > Len(children) THEN {}
    ELSE (IF children[i].type = "Section"
          THEN VisibleSections(children[i], d, f) ELSE {})
         \cup VisibleIn(children, i + 1,
                        d + Len(string(children[i], FALSE)),
                        f + Len(string(children[i], TRUE)))

VisibleSections(n, d, f) ==
    (IF n.level > 0 THEN {[node |-> n, d |-> d, f |-> f]} ELSE {})
    \cup (IF n.expanded
          THEN VisibleIn(n.children, 1, d + Len(Hashes(n.level) \o n.heading),
                         f + Len(Hashes(n.level) \o n.heading))
          ELSE {})

\* the collapsed sections the display text shows
Collapsed == {s \in VisibleSections(root, 0, 0) : ~s.node.expanded}

\* display offset just after the heading text of s
HeadEnd(s) == s.d + s.node.level + Len(s.node.heading)

\* full offsets of the children of s: first byte, and just after the last
BodyStart(s) == s.f + s.node.level + Len(s.node.heading)
BodyEnd(s) == s.f + Len(string(s.node, TRUE))

\* every node of the subtree of n, n included
RECURSIVE Nodes(_), NodesIn(_, _)
NodesIn(children, i) ==
    IF i > Len(children) THEN {}
    ELSE Nodes(children[i]) \cup NodesIn(children, i + 1)

Nodes(n) ==
    {n} \cup (IF n.type = "Section" THEN NodesIn(n.children, 1) ELSE {})

\* n is a collapsed section
IsCollapsed(n) == n.type = "Section" /\ ~n.expanded

\* n is a collapsed section with children, so that collapsing it hides text
Hides(n) == IsCollapsed(n) /\ len_children(n.children, TRUE, 1) > 0

\* the path of the deepest section whose display span (its hash run, its
\* heading text and, when it is expanded, its children) contains the display
\* position d; d is relative to the start of n and inside the span of n
RECURSIVE Locate(_, _), LocateIn(_, _, _, _)
LocateIn(n, d, i, cur) ==
    IF i > Len(n.children) THEN <<>>
    ELSE IF d < cur + Len(string(n.children[i], FALSE))
    THEN IF n.children[i].type = "Section"
         THEN <<i - 1>> \o Locate(n.children[i], d - cur)
         ELSE <<>>
    ELSE LocateIn(n, d, i + 1, cur + Len(string(n.children[i], FALSE)))

Locate(n, d) ==
    IF ~n.expanded \/ d < Len(Hashes(n.level) \o n.heading) THEN <<>>
    ELSE LocateIn(n, d, 1, Len(Hashes(n.level) \o n.heading))

\* the spans the display text is made of, in document order: for a section
\* its own text as a Heading span, then, unless it is collapsed, the spans of
\* its children; the root's own text is empty
RECURSIVE Spans(_), SpansIn(_, _)
SpansIn(children, i) ==
    IF i > Len(children) THEN <<>>
    ELSE Spans(children[i]) \o SpansIn(children, i + 1)

Spans(n) ==
    IF n.type = "MarkdownString"
    THEN <<[type |-> "MarkdownString", text |-> n.text, mdtype |-> n.mdtype]>>
    ELSE <<[type |-> "MarkdownString",
            text |-> string([n EXCEPT !.expanded = FALSE], FALSE),
            mdtype |-> "Heading"]>>
         \o (IF IsCollapsed(n) THEN <<>> ELSE SpansIn(n.children, 1))

\* the texts of the spans, concatenated from span i on
RECURSIVE Concat(_, _)
Concat(spans, i) ==
    IF i > Len(spans) THEN <<>> ELSE spans[i].text \o Concat(spans, i + 1)

\* the kinds of the spans
Kinds(spans) == [i \in DOMAIN spans |-> spans[i].mdtype]

\* the span whose range [cur, cur + length) holds the position d, from
\* span i on, span i starting at cur
RECURSIVE SpanCovering(_, _, _, _)
SpanCovering(spans, d, i, cur) ==
    IF i > Len(spans) THEN MarkdownString(<<>>, "None")
    ELSE IF d < cur + Len(spans[i].text) THEN spans[i]
    ELSE SpanCovering(spans, d, i + 1, cur + Len(spans[i].text))

\* positions past the end of the display text
Beyond == (Len(repr) + 1)..(Len(repr) + MaxOver)

\* the display position d is on the hash run of a section the display shows
OnHashRun(d) ==
    \E s \in VisibleSections(root, 0, 0) : s.d <= d /\ d < s.d + s.node.level

\* n with every section expanded
RECURSIVE Expanded(_), ExpandedIn(_, _)
ExpandedIn(children, i) ==
    IF i > Len(children) THEN <<>>
    ELSE <<Expanded(children[i])>> \o ExpandedIn(children, i + 1)

Expanded(n) ==
    IF n.type = "MarkdownString" THEN n
    ELSE [n EXCEPT !.expanded = TRUE, !.children = ExpandedIn(n.children, 1)]

HasSection(n) == \E i \in DOMAIN n.children : n.children[i].type = "Section"

----------------------------------------------------------------------------
(* Properties *)

\* C1: round trip. For every text T, the nodes parse(T) returns, serialized
\* under a level-0 root with full = true, give back T exactly; in particular
\* the tree Note::new builds serializes to the content it was given.
C1_RoundTrip ==
    /\ string(RootOf(parse(internal)), TRUE) = internal
    /\ op.name = "new" => string(root, TRUE) = internal

\* C1 witness: a parsed text whose heading levels go 1, 3, 2
C1_Witness ==
    /\ op.name = "new"
    /\ internal = <<"#","a","\n","#","#","#","a","\n","#","#","a">>
    /\ Len(root.children) = 1
    /\ Len(root.children[1].children) = 2
    /\ root.children[1].children[1].level = 3
    /\ root.children[1].children[2].level = 2

\* C2: full-text cache. In every state the cached full text (Note::full)
\* is the tree serialized with every section expanded.
C2_FullCache == internal = string(root, TRUE)

\* C3: display cache. After construction and after every insert_text,
\* delete_char_range and refresh, the cached display text (as_str) is the
\* tree serialized without the children of collapsed sections.
C3_DisplayCache == repr = string(root, FALSE)

\* C3 witness: a refresh has run with a section collapsed that hides text
C3_Witness == op.name = "toggle" /\ ~AllExpanded(root) /\ Len(repr) < len(root, TRUE)

\* C4: translation round trip. For every display position d in
\* [0, len(display)], inv_translate(translate(d)) = d.
C4_TranslateRoundTrip ==
    \A d \in Positions : inv_translate(root, translate(root, d)) = d

\* C5: translate skips hidden content. Every display position at or after
\* the end of a collapsed section's heading maps to a full position at or
\* after the end of that section's subtree, at every nesting depth.
C5_SkipsHidden ==
    \A s \in Collapsed :
        \A d \in HeadEnd(s)..Len(repr) : translate(root, d) >= BodyEnd(s)

\* C6 as stated: a full position inside the children of a collapsed section
\* maps to the display position just after that section's heading text.
C6_RoundsAfterHeading ==
    \A s \in Collapsed :
        \A f \in BodyStart(s)..(BodyEnd(s) - 1) :
            inv_translate(root, f) = HeadEnd(s)

\* C6 as amended: a full position inside the children of a collapsed section
\* (one whose heading the display shows) maps to the display position of the
\* last character of that section's heading text, the one before its
\* newline: heading start + level + heading length - 1.
C6_RoundsBeforeNewline ==
    \A s \in Collapsed :
        \A f \in BodyStart(s)..(BodyEnd(s) - 1) :
            inv_translate(root, f) = HeadEnd(s) - 1

\* C6 witness: a collapsed level-2 section that hides text
C6_Witness ==
    \E s \in Collapsed : s.node.level = 2 /\ BodyEnd(s) > BodyStart(s)

\* C7: insert updates the full text. After insert_text(text, i) the cached
\* full text is the full serialization from before the call with `text`
\* spliced in at translate(i), on the fast path and on the slow path.
C7_InsertUpdatesFull ==
    [][op'.name \in {"insert_fast", "insert_slow"} =>
          internal' = insert_str(string(root, TRUE),
                                 translate(root, op'.start), op'.text)]_vars

\* C8: fast-path insert. When Section::insert resolves the insert in place,
\* every section keeps its expanded flag and the new display text is the old
\* one with `text` inserted at i.
C8_FastInsertFrame ==
    [][op'.name = "insert_fast" =>
          /\ Flags(root') = Flags(root)
          /\ repr' = insert_str(repr, op'.start, op'.text)]_vars

\* C8 witness: a fast-path insert has run on a tree with a collapsed section
C8_Witness == op.name = "insert_fast" /\ ~AllExpanded(root)

C10_DeleteReparses ==
    [][op'.name = "delete" =>
          /\ internal' = drain(string(root, TRUE), translate(root, op'.start),
                               translate(root, op'.end))
          /\ root' = RootOf(parse(internal'))]_vars

\* C10 witness: a delete has run and left a document with a section
C10_Witness == op.name = "delete" /\ HasSection(root) /\ edits > 0

\* C11 as stated: for every node, len(false) <= len(true), with equality
\* if and only if the node's subtree contains no collapsed section.
C11_EqualIffNoneCollapsed ==
    \A n \in Nodes(root) :
        /\ len(n, FALSE) <= len(n, TRUE)
        /\ len(n, FALSE) = len(n, TRUE)
              <=> \A m \in Nodes(n) : ~IsCollapsed(m)

\* C11 as amended: for every node, len(false) <= len(true), with equality if
\* and only if no collapsed section of the node's subtree has children: a
\* collapsed section without children hides nothing, and the two lengths
\* stay equal.
C11_EqualIffNothingHidden ==
    \A n \in Nodes(root) :
        /\ len(n, FALSE) <= len(n, TRUE)
        /\ len(n, FALSE) = len(n, TRUE)
              <=> \A m \in Nodes(n) : ~Hides(m)

\* C11 witness: a tree with a collapsed section that hides text and a
\* collapsed section without children
C11_Witness ==
    /\ \E n \in Nodes(root) : Hides(n)
    /\ \E m \in Nodes(root) : IsCollapsed(m) /\ ~Hides(m)
    /\ len(root, FALSE) < len(root, TRUE)

\* C12: the root is never collapsible. toggle, expand and collapse called
\* with the empty path (the level-0 root) leave the root's expanded flag and
\* the rest of the tree unchanged.
C12_RootNeverCollapses ==
    [][op'.path = <<>> => root' = root]_vars

\* C13: locate. For every display position d inside the display text,
\* Section::path returns the path of the deepest section whose display span
\* contains d; inside a leaf, the path of the leaf's containing section.
C13_LocateDeepest ==
    \A d \in 0..(Len(repr) - 1) : path(root, d) = Locate(root, d)

\* C14: spanAt. For every display position d in [0, len(display)),
\* get_node(d) is the visible span whose display range contains d, a leaf
\* with its kind or a section's hash run and heading as a Heading span, and
\* never a span under a collapsed section; for a position past the display
\* text it is the empty span of kind None.
C14_SpanAt ==
    /\ \A d \in 0..(Len(repr) - 1) :
          get_node(root, d) = SpanCovering(Spans(root), d, 1, 0)
    /\ \A d \in Beyond : get_node(root, d) = MarkdownString(<<>>, "None")

\* C15: classifiedSpans partitions the display text. markdown() is, in
\* document order, one Heading span per visible section heading (the root's
\* empty one first) and one span per visible leaf with the leaf's kind,
\* nothing from under a collapsed section; the span texts concatenated are
\* the display text. For "#a\n##a\na\n##a\na" (the test document with
\* one-letter texts) the kinds are Heading, Heading, Heading, Paragraph,
\* Heading, Paragraph.
C15_SpansPartition ==
    /\ markdown(root) = Spans(root)
    /\ Concat(markdown(root), 1) = repr
    /\ (op.name = "new"
        /\ internal = <<"#","a","\n","#","#","a","\n","a","\n","#","#","a","\n","a">>)
       => Kinds(markdown(root)) = <<"Heading", "Heading", "Heading",
                                    "Paragraph", "Heading", "Paragraph">>

\* C15 witness: spans are listed while a collapsed section hides leaves and
\* a nested heading
C15_Witness ==
    /\ \E n \in Nodes(root) : Hides(n) /\ HasSection(n)
    /\ Len(markdown(root)) > 1
    /\ Len(Concat(markdown(root), 1)) < len(root, TRUE)

\* C16: out-of-range positions are rejected. translate, path, insert_text
\* and delete_char_range called with a display position greater than
\* len(display) signal an error instead of returning a position or a path.
C16_RejectsOutOfRange ==
    \A d \in Beyond :
        /\ Note_translate(d).panics
        /\ Note_path(d).panics
        /\ \A text \in Texts : insert_text_panics(text, d)
        /\ \A s \in Positions : delete_char_range_panics(s, d)

\* C17: reparse discards collapse state. After every delete_char_range and
\* after every insert_text that falls back to the slow path, which it does
\* exactly when the position is on a heading's hash run or at the end of the
\* display text, every section of the new tree is expanded and the display
\* text equals the full text, whatever was collapsed before the call.
C17_ReparseExpandsAll ==
    [][/\ op'.name \in {"delete", "insert_slow"} =>
             /\ AllExpanded(root')
             /\ repr' = string(root', TRUE)
             /\ repr' = internal'
       /\ op'.name \in {"insert_fast", "insert_slow"} =>
             (op'.name = "insert_slow"
                 <=> OnHashRun(op'.start) \/ op'.start = Len(repr))]_vars

\* C17 witness: a slow-path insert has run on a document that had a section
\* collapsed, and left a tree with sections, all of them expanded
C17_Witness ==
    /\ op.name = "insert_slow" /\ op.folded
    /\ HasSection(root) /\ AllExpanded(root)

\* C18: the tree stays canonical under edits. After any sequence of
\* insert_text and delete_char_range calls the tree is, expanded flags
\* aside, the tree parse builds from the tree's full serialization: the same
\* sections, levels, headings, leaf boundaries and leaf kinds.
C18_TreeCanonical ==
    Expanded(root) = RootOf(parse(string(root, TRUE)))

====
